---- MODULE Spec2Model ----
(***************************************************************************)
(* Model of process_dji_previews.py: the batch that stages a LUT, creates  *)
(* a temp video directory, enumerates the videos of a directory, keeps the *)
(* DJI ones with their colour mode, resizes and colour-corrects the d_log  *)
(* ones and removes its temporary directories.                             *)
(*                                                                         *)
(* Strings the code inspects (file names, sidecar text, encoder tags and   *)
(* colour modes) are sequences of one-character strings, so that lower(),  *)
(* endswith(), "in" and the regular expression are computed.  A directory  *)
(* is the sequence of its path components below the working directory      *)
(* ("." is the empty sequence); a file is [dir, name].                     *)
(***************************************************************************)
EXTENDS Integers, Sequences, FiniteSets, TLC

\* Bounds of the model.
MaxFiles == 2   \* source videos present in the input directory
MaxRuns == 2    \* successive invocations of the script on the directory

----------------------------------------------------------------------------
\* Module-level settings (lines 18-30).

temp_dir == <<"temp">>
convertable_color_modes == { <<"d","_","l","o","g">> }
video_preview_file_suffix == <<"_","p","r","e","v","i","e","w">>
output_extension == <<".","m","p","4">>

\* Python's None, distinct from every string (a string holds single characters).
None == <<"None">>

----------------------------------------------------------------------------
\* String helpers, computed as Python computes them.

\* str.lower() on the letters that occur in the model's strings.
LowerChar(c) ==
    CASE c = "D" -> "d" [] c = "G" -> "g" [] c = "H" -> "h" [] c = "I" -> "i"
      [] c = "J" -> "j" [] c = "L" -> "l" [] c = "M" -> "m" [] c = "O" -> "o"
      [] c = "P" -> "p" [] c = "V" -> "v" [] OTHER -> c

Lower(s) == [k \in 1..Len(s) |-> LowerChar(s[k])]

\* s.endswith(suf)
EndsWith(s, suf) ==
    /\ Len(s) >= Len(suf)
    /\ SubSeq(s, Len(s) - Len(suf) + 1, Len(s)) = suf

\* sub in s
Contains(s, sub) ==
    \E k \in 1..(Len(s) - Len(sub) + 1) : SubSeq(s, k, k + Len(sub) - 1) = sub

\* os.path.splitext(os.path.basename(file))[0]: the name up to its last dot,
\* a dot that only follows dots (a leading dot) not counting.
get_filename_without_extension(name) ==
    LET dots == {k \in 1..Len(name) :
                    /\ name[k] = "."
                    /\ \E j \in 1..(k - 1) : name[j] # "."}
    IN  IF dots = {} THEN name
        ELSE SubSeq(name, 1, (CHOOSE k \in dots : \A j \in dots : j <= k) - 1)

get_preview_filename(name) ==
    get_filename_without_extension(name) \o video_preview_file_suffix \o output_extension

get_bin_filename(name, suffix) ==
    get_filename_without_extension(name) \o <<"_">> \o suffix \o <<".","b","i","n">>

\* os.path.join(dir, name) for a file, and for a directory below another.
File(dir, name) == [dir |-> dir, name |-> name]
JoinDir(dir, sub) == dir \o sub

\* re.search(r"\[color_md : (.*?)\]", content): the leftmost start of the
\* literal prefix that is followed, with no newline in between, by a "]";
\* the group is the text up to the first such "]".
MarkerPrefix == <<"[","c","o","l","o","r","_","m","d"," ",":"," ">>

MarkerEnds(content, k) ==
    {j \in (k + Len(MarkerPrefix))..Len(content) :
        /\ content[j] = "]"
        /\ \A m \in (k + Len(MarkerPrefix))..(j - 1) : content[m] # "\n"}

MarkerStarts(content) ==
    {k \in 1..(Len(content) - Len(MarkerPrefix) + 1) :
        /\ SubSeq(content, k, k + Len(MarkerPrefix) - 1) = MarkerPrefix
        /\ MarkerEnds(content, k) # {}}

Min(S) == CHOOSE x \in S : \A y \in S : x <= y
Max(S) == CHOOSE x \in S : \A y \in S : y <= x

\* Variant of the pattern with a greedy group, "(.*)".
search_color_md_greedy(content) ==
    IF MarkerStarts(content) = {} THEN None
    ELSE LET k == Min(MarkerStarts(content))
             j == Max(MarkerEnds(content, k))
         IN  SubSeq(content, k + Len(MarkerPrefix), j - 1)

search_color_md(content) ==
    IF MarkerStarts(content) = {} THEN None
    ELSE LET k == Min(MarkerStarts(content))
             j == Min(MarkerEnds(content, k))
         IN  SubSeq(content, k + Len(MarkerPrefix), j - 1)

----------------------------------------------------------------------------
\* The environment: what the directory can hold and what the external tools
\* can answer.

A_mp4 == <<"a",".","m","p","4">>
A_MOV == <<"a",".","M","O","V">>
B_mp4 == <<"b",".","m","p","4">>
SourceNames == {A_mp4, A_MOV, B_mp4}

LutName == <<"l",".","c","u","b","e">>

SrtName(name) == get_filename_without_extension(name) \o <<".","s","r","t">>

\* Sidecar texts: no complete marker (the "]" is on the next line), one marker
\* in capitals, and two markers on one line.
NoMarkerText == <<"1","\n">> \o MarkerPrefix \o <<"h","l","o","g","\n","]">>
DLogText == <<"1","\n">> \o MarkerPrefix \o <<"D","_","L","o","g","]","\n">>
TwoMarkerText ==
    MarkerPrefix \o <<"h","l","o","g","]"," ">> \o MarkerPrefix \o <<"d","_","l","o","g","]">>
SrtText(kind) ==
    CASE kind = "one_marker" -> DLogText
      [] kind = "two_markers" -> TwoMarkerText
      [] OTHER -> NoMarkerText

\* The texts a sidecar of the model's directory can hold.
SrtTexts(srt_name) ==
    IF srt_name = SrtName(A_mp4) THEN {"one_marker", "two_markers"} ELSE {"no_marker"}

\* ffprobe's answers: a non-zero exit, a document without format.tags, and
\* documents whose tags carry no encoder, another encoder, the vendor name
\* in lower case, and the vendor name.
Tag(k, v) == <<k, v>>
Brand == Tag("major_brand", <<"i","s","o","m">>)
ProbeOutcomes ==
    { [rc |-> 1, has_tags |-> FALSE, tags |-> {}],
      [rc |-> 0, has_tags |-> FALSE, tags |-> {}],
      [rc |-> 0, has_tags |-> TRUE, tags |-> {Brand}],
      [rc |-> 0, has_tags |-> TRUE, tags |-> {Brand, Tag("encoder", <<"L","a","v","f">>)}],
      [rc |-> 0, has_tags |-> TRUE, tags |-> {Brand, Tag("encoder", <<"d","j","i">>)}],
      [rc |-> 0, has_tags |-> TRUE, tags |-> {Tag("encoder", <<"D","J","I"," ","M","3">>)}] }

\* ffmpeg's answers to the data-stream demux: a non-zero exit, a blob the
\* decoder rejects, a message without the path 2.2.3.1, and the codes.
DemuxFailed == [rc |-> 1, decodable |-> FALSE, has_path |-> FALSE, code |-> 0]
Undecodable == [rc |-> 0, decodable |-> FALSE, has_path |-> FALSE, code |-> 0]
NoPath == [rc |-> 0, decodable |-> TRUE, has_path |-> FALSE, code |-> 0]
Coded(c) == [rc |-> 0, decodable |-> TRUE, has_path |-> TRUE, code |-> c]

\* The answers the demux of each video of the model's directory can give.
DemuxOutcomes(name) ==
    CASE name = A_mp4 -> {DemuxFailed, NoPath, Coded(2)}
      [] name = A_MOV -> {Undecodable, Coded(9), Coded(2)}
      [] OTHER -> {Coded(19), Coded(5), Coded(2)}

\* ffmpeg's answers to a transcode: success, a failure that wrote nothing,
\* and a failure after the output file was opened for writing.
TranscodeOutcomes == {"ok", "fail", "fail_partial"}

NoFile == File(<<>>, <<>>)

\* An external command: the tool, the asset it is run for, the file it
\* reads, the file it writes and what it answered.
Call(tool, asset, src, out, answer) ==
    [tool |-> tool, asset |-> asset, src |-> src, out |-> out, answer |-> answer]

IsPrefix(p, s) == Len(p) <= Len(s) /\ SubSeq(s, 1, Len(p)) = p

\* os.walk lists a directory in the file system's order: the place of each
\* name in the listing of the model's directory.
listing_rank(name) ==
    CASE name = A_mp4 -> 1
      [] name = A_MOV -> 2
      [] OTHER -> 3

\* The files of S as the list of line 138 holds them.
in_walk_order(S) ==
    CHOOSE s \in [1..Cardinality(S) -> S] :
        \A x, y \in 1..Cardinality(S) :
            x < y => listing_rank(s[x].name) < listing_rank(s[y].name)

----------------------------------------------------------------------------
VARIABLES
    input_directory,      \* args.input_directory
    regenerate_previews,  \* the -rp flag of this run
    dirs,                 \* the directories that exist
    files,                \* the video files below the input directory
    sidecars,             \* the .srt files: file -> which text it holds
    wsfiles,              \* the files in the temporary directories
    pc,                   \* where the script is
    lut_file,             \* the staged LUT (line 238)
    file_paths,           \* get_video_files' result
    dji_files,            \* get_dji_videos_with_color_mode's list so far
    ci,                   \* position of the loop of line 119
    i,                    \* position of the loop of line 178
    calls,                \* the external commands run in this run, in order
    results,              \* per processed asset: what its iteration did
    seen,                 \* the video files that existed when line 174 ran
    acquired,             \* this run created both temporary directories
    teardowns,            \* executions of the removal block (lines 252-259)
    run,                  \* number of the current invocation
    prev                  \* the finished invocations

vars == <<input_directory, regenerate_previews, dirs, files, sidecars, wsfiles, pc,
          lut_file, file_paths, dji_files, ci, i, calls, results, seen, acquired,
          teardowns, run, prev>>

temp_video_dir == JoinDir(input_directory, temp_dir)

AllFiles == files \cup DOMAIN sidecars \cup wsfiles

InWorkspace(f) == IsPrefix(temp_dir, f.dir) \/ IsPrefix(temp_video_dir, f.dir)

----------------------------------------------------------------------------
\* The functions of the script.

\* Line 141-142: the name is a video's and is not a preview's.
is_candidate(name) ==
    /\ EndsWith(Lower(name), <<".","m","p","4">>) \/ EndsWith(Lower(name), <<".","m","o","v">>)
    /\ ~Contains(Lower(name), video_preview_file_suffix)

\* Variants of lines 143-146: every file is taken; the flag is not looked at.
is_listed_always(f, regen, existing) == TRUE

is_listed_ignoring_flag(f, regen, existing) ==
    File(f.dir, get_preview_filename(f.name)) \notin existing

\* Lines 143-146: the file is taken when previews are regenerated, or when
\* no preview of it exists next to it.
is_listed(f, regen, existing) ==
    \/ regen
    \/ File(f.dir, get_preview_filename(f.name)) \notin existing

\* get_video_files: the files os.walk finds below the directory, filtered.
get_video_files(directory, regen, existing) ==
    {f \in existing :
        /\ IsPrefix(directory, f.dir)
        /\ is_candidate(f.name)
        /\ is_listed(f, regen, existing)}

\* Variant of line 122: the vendor name is matched in any letter case.
is_dji_any_case(tags) ==
    \E t \in tags : t[1] = "encoder" /\ Contains(Lower(t[2]), <<"d","j","i">>)

\* Line 122.
is_dji(tags) ==
    \E t \in tags : t[1] = "encoder" /\ Contains(t[2], <<"D","J","I">>)

get_color_mode_from_subs(file) ==
    LET srt_file == File(file.dir, SrtName(file.name))
    IN  IF srt_file \notin DOMAIN sidecars THEN None
        ELSE search_color_md(SrtText(sidecars[srt_file]))

\* Line 124: whether the data stream is consulted.
needs_data_stream(color_mode) == color_mode = None

\* Lines 106-112.
color_mode_of_code(code) ==
    CASE code = 9 -> <<"h","l","o","g">>
      [] code = 19 -> <<"d","l","o","g","_","m">>
      [] code = 2 -> <<"d","_","l","o","g">>
      [] OTHER -> <<"d","e","f","a","u","l","t">>

\* get_color_mode_from_data_stream on the demux's answer d: subprocess.run
\* (check=True) and the decoding stand before the try and raise; only the
\* path lookup is inside it.
get_color_mode_from_data_stream(d) ==
    IF d.rc # 0 THEN [raised |-> TRUE, value |-> None]
    ELSE IF ~d.decodable THEN [raised |-> TRUE, value |-> None]
    ELSE IF ~d.has_path THEN [raised |-> FALSE, value |-> <<"d","e","f","a","u","l","t">>]
    ELSE [raised |-> FALSE, value |-> color_mode_of_code(d.code)]

\* One iteration of the loop of get_dji_videos_with_color_mode on file f,
\* ffprobe answering p and the demux (when it is run) answering d.
classify_one(f, p, d) ==
    LET probe == Call("ffprobe", f, f, NoFile, p)
        bin == File(temp_video_dir, get_bin_filename(f.name, <<"0">>))
        demux == Call("demux", f, f, bin, d)
        subs == get_color_mode_from_subs(f)
        ds == get_color_mode_from_data_stream(d)
    IN  IF p.rc # 0 \/ ~p.has_tags
        THEN [status |-> "raise", color_mode |-> None, calls |-> <<probe>>, written |-> {}]
        ELSE IF ~is_dji(p.tags)
        THEN [status |-> "drop", color_mode |-> None, calls |-> <<probe>>, written |-> {}]
        ELSE IF ~needs_data_stream(subs)
        THEN [status |-> "keep", color_mode |-> subs, calls |-> <<probe>>, written |-> {}]
        ELSE [status |-> IF ds.raised THEN "raise" ELSE "keep",
              color_mode |-> ds.value,
              calls |-> <<probe, demux>>,
              written |-> IF d.rc = 0 THEN {bin} ELSE {}]

\* Variant of line 185: the colour mode is compared as it is spelt.
is_convertable_as_spelt(color_mode) ==
    color_mode # None /\ color_mode \in convertable_color_modes

\* Line 185.
is_convertable(color_mode) ==
    color_mode # None /\ Lower(color_mode) \in convertable_color_modes

\* Line 186: where the resize stage writes.
intermediate_file_of(input_file) ==
    File(temp_video_dir, get_preview_filename(input_file.name))

\* Lines 180-184: where the LUT stage writes.
output_file_of(input_file) ==
    File(input_file.dir, get_preview_filename(input_file.name))

\* Variant of lines 190-191: "except FileNotFoundError: pass".
transcode_handler_missing_lut_only(exc) ==
    IF exc = "FileNotFoundError" THEN "pass" ELSE "raise"

\* Lines 190-191: the handler of the try of line 187 ("except: pass").
transcode_handler(exc) == "pass"

\* One iteration of the loop of process_video_files: resize answers r and,
\* when it is run, the LUT stage answers l.
process_one(input_file, color_mode, lut, r, l, existing) ==
    LET intermediate_file == intermediate_file_of(input_file)
        output_file == output_file_of(input_file)
        c1 == Call("resize", input_file, input_file, intermediate_file, r)
        c2 == Call("apply_lut", input_file, intermediate_file, output_file, l)
        w1 == IF r = "fail" THEN {} ELSE {intermediate_file}
        w2 == IF l = "fail" THEN {} ELSE {output_file}
    IN  IF ~is_convertable(color_mode)
        THEN [outcome |-> "skipped", exc |-> "none", calls |-> <<>>, written |-> {}]
        ELSE IF r # "ok"
        THEN [outcome |-> "resize_failed", exc |-> "CalledProcessError",
              calls |-> <<c1>>, written |-> w1]
        ELSE IF lut \notin existing
        THEN [outcome |-> "lut_missing", exc |-> "FileNotFoundError",
              calls |-> <<c1>>, written |-> w1]
        ELSE IF l # "ok"
        THEN [outcome |-> "lut_failed", exc |-> "CalledProcessError",
              calls |-> <<c1, c2>>, written |-> w1 \cup w2]
        ELSE [outcome |-> "produced", exc |-> "none",
              calls |-> <<c1, c2>>, written |-> w1 \cup w2]

----------------------------------------------------------------------------
\* The script, step by step.

\* rmtree(d): the directories and the temporary files it removes.
DirsAfterRmtree(ds, d) == {x \in ds : ~IsPrefix(d, x)}
FilesAfterRmtree(fs, d) == {f \in fs : ~IsPrefix(d, f.dir)}

Init ==
    /\ input_directory \in {<<>>, <<"in">>}
    /\ regenerate_previews \in BOOLEAN
    /\ dirs \in {{<<>>}, {<<>>, input_directory}}
    /\ \E S \in SUBSET SourceNames :
         /\ Cardinality(S) <= MaxFiles
         /\ input_directory \notin dirs => S = {}
         /\ files = {File(input_directory, n) : n \in S}
         /\ \E T \in SUBSET {File(input_directory, SrtName(n)) : n \in S} :
               /\ sidecars \in [T -> UNION {SrtTexts(t.name) : t \in T}]
               /\ \A t \in T : sidecars[t] \in SrtTexts(t.name)
    /\ wsfiles = {}
    /\ pc = "start"
    /\ lut_file = NoFile
    /\ file_paths = <<>>
    /\ dji_files = <<>>
    /\ ci = 1
    /\ i = 1
    /\ calls = <<>>
    /\ results = <<>>
    /\ seen = {}
    /\ acquired = FALSE
    /\ teardowns = 0
    /\ run = 1
    /\ prev = <<>>

\* copy_file_to_temp_dir(args.lut_file), line 238: the copy succeeds, or
\* fails and the script exits with status 1.
StageLut ==
    /\ pc = "start"
    /\ dirs' = dirs \cup {temp_dir}
    /\ \E ok \in BOOLEAN :
         IF ok
         THEN /\ lut_file' = File(temp_dir, LutName)
              /\ wsfiles' = wsfiles \cup {File(temp_dir, LutName)}
              /\ pc' = "mktemp"
         ELSE /\ UNCHANGED <<lut_file, wsfiles>>
              /\ pc' = "exited"
    /\ UNCHANGED <<input_directory, regenerate_previews, files, sidecars, file_paths,
                   dji_files, ci, i, calls, results, seen, acquired, teardowns, run, prev>>

\* Lines 241-248: an existing temp video directory is removed (or the script
\* exits with status 1), then the directory is made; mkdir raises when the
\* input directory does not exist.
MakeTempVideoDir ==
    /\ pc = "mktemp"
    /\ \E ok \in BOOLEAN :
         LET existed == temp_video_dir \in dirs
             dirs1 == IF existed THEN DirsAfterRmtree(dirs, temp_video_dir) ELSE dirs
             ws1 == IF existed THEN FilesAfterRmtree(wsfiles, temp_video_dir) ELSE wsfiles
         IN  IF existed /\ ~ok
             THEN /\ pc' = "exited"
                  /\ UNCHANGED <<dirs, wsfiles, acquired>>
             ELSE IF input_directory \notin dirs1
             THEN /\ pc' = "aborted"
                  /\ dirs' = dirs1
                  /\ wsfiles' = ws1
                  /\ UNCHANGED acquired
             ELSE /\ pc' = "enumerate"
                  /\ dirs' = dirs1 \cup {temp_video_dir}
                  /\ wsfiles' = ws1
                  /\ acquired' = TRUE
    /\ UNCHANGED <<input_directory, regenerate_previews, files, sidecars, lut_file,
                   file_paths, dji_files, ci, i, calls, results, seen, teardowns, run, prev>>

\* Line 174: get_video_files.
Enumerate ==
    /\ pc = "enumerate"
    /\ IF input_directory \notin dirs
       THEN /\ pc' = "aborted"
            /\ UNCHANGED <<file_paths, seen>>
       ELSE /\ file_paths' =
                  in_walk_order(get_video_files(input_directory, regenerate_previews, AllFiles))
            /\ seen' = files
            /\ pc' = "classify"
    /\ ci' = 1
    /\ UNCHANGED <<input_directory, regenerate_previews, dirs, files, sidecars, wsfiles,
                   lut_file, dji_files, i, calls, results, acquired, teardowns, run, prev>>

\* Lines 119-126, one file: an exception leaves the script.
ClassifyNext ==
    /\ pc = "classify"
    /\ ci <= Len(file_paths)
    /\ \E p \in ProbeOutcomes, d \in DemuxOutcomes(file_paths[ci].name) :
         LET c == classify_one(file_paths[ci], p, d)
         IN  /\ calls' = calls \o c.calls
             /\ wsfiles' = wsfiles \cup c.written
             /\ dji_files' =
                  IF c.status = "keep"
                  THEN Append(dji_files, [f |-> file_paths[ci], color_mode |-> c.color_mode])
                  ELSE dji_files
             /\ IF c.status = "raise"
                THEN pc' = "aborted" /\ ci' = ci
                ELSE pc' = pc /\ ci' = ci + 1
    /\ UNCHANGED <<input_directory, regenerate_previews, dirs, files, sidecars, lut_file,
                   file_paths, i, results, seen, acquired, teardowns, run, prev>>

\* Lines 175-177: the list is complete.
BeginProcess ==
    /\ pc = "classify"
    /\ ci > Len(file_paths)
    /\ pc' = "process"
    /\ i' = 1
    /\ UNCHANGED <<input_directory, regenerate_previews, dirs, files, sidecars, wsfiles,
                   lut_file, file_paths, dji_files, ci, calls, results, seen, acquired,
                   teardowns, run, prev>>

\* Lines 178-194, one asset.
ProcessNext ==
    /\ pc = "process"
    /\ i <= Len(dji_files)
    /\ \E r \in TranscodeOutcomes, l \in TranscodeOutcomes :
         LET a == dji_files[i]
             o == process_one(a.f, a.color_mode, lut_file, r, l, AllFiles)
             outside == {f \in o.written : ~InWorkspace(f)}
         IN  /\ calls' = calls \o o.calls
             /\ wsfiles' = wsfiles \cup (o.written \ outside)
             /\ files' = files \cup outside
             /\ results' = Append(results, [asset |-> a.f, color_mode |-> a.color_mode,
                                            outcome |-> o.outcome, wrote |-> outside])
             /\ IF o.exc # "none" /\ transcode_handler(o.exc) # "pass"
                THEN pc' = "aborted" /\ i' = i
                ELSE pc' = pc /\ i' = i + 1
    /\ UNCHANGED <<input_directory, regenerate_previews, dirs, sidecars, lut_file,
                   file_paths, dji_files, ci, seen, acquired, teardowns, run, prev>>

\* Lines 252-261: both removals, each error printed, then "Done!".
Teardown ==
    /\ pc = "process"
    /\ i > Len(dji_files)
    /\ \E ok1 \in BOOLEAN, ok2 \in BOOLEAN :
         LET d1 == lut_file.dir
             rm1 == d1 \in dirs /\ ok1
             dirs1 == IF rm1 THEN DirsAfterRmtree(dirs, d1) ELSE dirs
             ws1 == IF rm1 THEN FilesAfterRmtree(wsfiles, d1) ELSE wsfiles
             rm2 == temp_video_dir \in dirs1 /\ ok2
         IN  /\ dirs' = IF rm2 THEN DirsAfterRmtree(dirs1, temp_video_dir) ELSE dirs1
             /\ wsfiles' = IF rm2 THEN FilesAfterRmtree(ws1, temp_video_dir) ELSE ws1
    /\ teardowns' = teardowns + 1
    /\ pc' = "done"
    /\ UNCHANGED <<input_directory, regenerate_previews, files, sidecars, lut_file,
                   file_paths, dji_files, ci, i, calls, results, seen, acquired, run, prev>>

Ended == pc \in {"done", "aborted", "exited"}

\* The same command line is run again on the directory as the last run left it.
NextRun ==
    /\ Ended
    /\ run < MaxRuns
    /\ run' = run + 1
    /\ prev' = Append(prev, [files |-> files])
    /\ pc' = "start"
    /\ lut_file' = NoFile
    /\ file_paths' = <<>>
    /\ dji_files' = <<>>
    /\ ci' = 1
    /\ i' = 1
    /\ calls' = <<>>
    /\ results' = <<>>
    /\ seen' = {}
    /\ acquired' = FALSE
    /\ teardowns' = 0
    /\ UNCHANGED <<input_directory, regenerate_previews, dirs, files, sidecars, wsfiles>>

Next ==
    \/ StageLut
    \/ MakeTempVideoDir
    \/ Enumerate
    \/ ClassifyNext
    \/ BeginProcess
    \/ ProcessNext
    \/ Teardown
    \/ NextRun

Spec == Init /\ [][Next]_vars

----------------------------------------------------------------------------
\* Vocabulary of the properties.

Range(q) == {q[k] : k \in DOMAIN q}

\* The calls of this run made for asset f with one of the tools.
CallsFor(f, tools) == {k \in DOMAIN calls : calls[k].asset = f /\ calls[k].tool \in tools}

IsTranscode(c) == c.tool \in {"resize", "apply_lut"}
TranscodeCalls(f) == SelectSeq(calls, LAMBDA c : c.asset = f /\ IsTranscode(c))

\* The preview path the description gives each video of the model's
\* directory: next to the source, base name, "_preview", ".mp4".
ExpectedPreview(f) ==
    File(f.dir,
         IF f.name \in {A_mp4, A_MOV}
         THEN <<"a","_","p","r","e","v","i","e","w",".","m","p","4">>
         ELSE <<"b","_","p","r","e","v","i","e","w",".","m","p","4">>)

\* The value of the first marker of each sidecar text.
ExpectedMarker(kind) ==
    CASE kind = "one_marker" -> <<"D","_","L","o","g">>
      [] kind = "two_markers" -> <<"h","l","o","g">>
      [] OTHER -> None

SidecarOf(f) ==
    File(f.dir, IF f.name \in {A_mp4, A_MOV} THEN <<"a",".","s","r","t">>
                ELSE <<"b",".","s","r","t">>)

\* Colour modes equal to d_log ignoring letter case, among those that occur.
DLogSpellings == { <<"d","_","l","o","g">>, <<"D","_","L","o","g">> }

\* The probe answered with an encoder tag that contains DJI.
ProbeSaysDji(c) ==
    /\ c.tool = "ffprobe"
    /\ c.answer.rc = 0
    /\ c.answer.has_tags
    /\ \E t \in c.answer.tags : t[1] = "encoder" /\ t[2] = <<"D","J","I"," ","M","3">>

TranscodeFailed(k) == results[k].outcome \in {"resize_failed", "lut_failed"}

----------------------------------------------------------------------------
\* C1: a run that created both temporary directories executes the removal
\* block exactly once before it ends, on every exit path, and ends with
\* neither directory present.
C1_TeardownOnEveryExit ==
    (Ended /\ acquired) =>
        /\ teardowns = 1
        /\ temp_dir \notin dirs
        /\ temp_video_dir \notin dirs

\* C2: the data-stream tier never raises: every asset whose demux was run is
\* classified, as default when the demux exited non-zero, when the blob
\* could not be decoded or when the path 2.2.3.1 was absent.
C2_DataStreamTierNeverRaises ==
    \A k \in DOMAIN calls :
        calls[k].tool = "demux" =>
            \E j \in DOMAIN dji_files :
                /\ dji_files[j].f = calls[k].asset
                /\ (calls[k].answer.rc # 0 \/ ~calls[k].answer.decodable
                        \/ ~calls[k].answer.has_path)
                     => dji_files[j].color_mode = <<"d","e","f","a","u","l","t">>

\* C3: an asset whose resize or LUT stage failed has nothing written outside
\* the temporary directories by that attempt.
C3_FailedStageLeavesNoOutput ==
    \A k \in DOMAIN results : TranscodeFailed(k) => results[k].wrote = {}

\* C4, as claimed: without regeneration the second run on the directory the
\* first run left makes no external call at all.
C4_SecondRunInvokesNothing ==
    (run = 2 /\ ~regenerate_previews) => calls = <<>>

\* C4, amended: without regeneration the second run makes no external call
\* for an asset whose preview path held a file when the first run ended, and
\* a second run that completes has probed every other candidate.
C4_SecondRunOnlyWithoutPreview ==
    (run >= 2 /\ ~regenerate_previews) =>
        LET before == prev[run - 1].files
        IN  /\ \A k \in DOMAIN calls : ExpectedPreview(calls[k].asset) \notin before
            /\ pc = "done" =>
                 \A f \in before :
                    (f.name \in SourceNames /\ ExpectedPreview(f) \notin before)
                        => CallsFor(f, {"ffprobe"}) # {}

C4_Witness ==
    /\ run = 2
    /\ ~regenerate_previews
    /\ pc = "done"
    /\ calls # <<>>
    /\ \E f \in prev[1].files : f.name \in SourceNames /\ ExpectedPreview(f) \in prev[1].files

\* C5: a resize or LUT failure for an asset does not stop the batch: after
\* it the run is still in the loop or at "Done!", while assets remain the
\* next one can be processed, after the last one the run can finish, and
\* at "Done!" every asset of the list has had its iteration.
C5_FailureDoesNotStopBatch ==
    (\E k \in DOMAIN results : TranscodeFailed(k)) =>
        /\ pc \in {"process", "done"}
        /\ (pc = "process" /\ i <= Len(dji_files)) => ENABLED ProcessNext
        /\ (pc = "process" /\ i > Len(dji_files)) => ENABLED Teardown
        /\ pc = "done" =>
             /\ Len(results) = Len(dji_files)
             /\ \A k \in DOMAIN results : results[k].asset = dji_files[k].f

C5_Witness ==
    /\ pc = "done"
    /\ \E k \in DOMAIN results :
         /\ TranscodeFailed(k)
         /\ \E j \in DOMAIN results : j > k /\ results[j].outcome = "produced"

\* C6: without regeneration a source file whose preview existed when the
\* directory was enumerated is not in the processing list and no external
\* call is made for it; with regeneration it is in the list.
C6_ExistingPreviewSkipped ==
    pc \in {"classify", "process", "done"} =>
        \A f \in seen :
            (f.name \in SourceNames /\ ExpectedPreview(f) \in seen) =>
                IF regenerate_previews
                THEN f \in Range(file_paths)
                ELSE /\ f \notin Range(file_paths)
                     /\ \A k \in DOMAIN calls : calls[k].asset # f
                     /\ \A j \in DOMAIN dji_files : dji_files[j].f # f

C6_Witness ==
    /\ pc = "done"
    /\ ~regenerate_previews
    /\ calls # <<>>
    /\ \E f \in seen : f.name \in SourceNames /\ ExpectedPreview(f) \in seen

\* C7: an asset whose colour mode is d_log in any letter case is resized,
\* then, only if the resize succeeded, colour-corrected from the resize
\* stage's output in the temp video directory; when both stages succeed
\* these are its only two transcode calls and its only output is the file at
\* its preview path.
C7_DLogTwoCallsOneOutput ==
    \A k \in DOMAIN results :
        results[k].color_mode \in DLogSpellings =>
            LET f == results[k].asset
                tc == TranscodeCalls(f)
            IN  /\ Len(tc) \in {1, 2}
                /\ tc[1].tool = "resize"
                /\ tc[1].src = f
                /\ tc[1].out.dir = temp_video_dir
                /\ Len(tc) = 2 =>
                     /\ tc[1].answer = "ok"
                     /\ tc[2].tool = "apply_lut"
                     /\ tc[2].src = tc[1].out
                     /\ tc[2].out = ExpectedPreview(f)
                /\ (Len(tc) = 2 /\ tc[2].answer = "ok") =>
                     /\ results[k].outcome = "produced"
                     /\ results[k].wrote = {ExpectedPreview(f)}
                /\ results[k].outcome = "produced" => Len(tc) = 2

C7_Witness ==
    \E k \in DOMAIN results :
        /\ results[k].color_mode = <<"D","_","L","o","g">>
        /\ results[k].outcome = "produced"
        /\ Len(TranscodeCalls(results[k].asset)) = 2

\* C8: a transcode call is made for an asset, and an output written for it,
\* only if its probe answered with an encoder tag that contains DJI and its
\* colour mode is d_log in some letter case.
C8_TranscodeOnlyForConvertibleDji ==
    /\ \A k \in DOMAIN calls :
         IsTranscode(calls[k]) =>
            /\ \E j \in 1..(k - 1) : calls[j].asset = calls[k].asset /\ ProbeSaysDji(calls[j])
            /\ \E j \in DOMAIN dji_files :
                 /\ dji_files[j].f = calls[k].asset
                 /\ dji_files[j].color_mode \in DLogSpellings
    /\ \A k \in DOMAIN results :
         results[k].wrote # {} =>
            /\ results[k].color_mode \in DLogSpellings
            /\ \E j \in DOMAIN calls :
                 calls[j].asset = results[k].asset /\ ProbeSaysDji(calls[j])

C8_Witness ==
    /\ pc = "done"
    /\ \E k \in DOMAIN results : results[k].outcome = "produced"
    /\ \/ \E k \in DOMAIN results :
              /\ results[k].color_mode = <<"d","l","o","g","_","m">>
              /\ TranscodeCalls(results[k].asset) = <<>>
              /\ results[k].wrote = {}
       \/ \E k \in DOMAIN calls :
              /\ calls[k].tool = "ffprobe"
              /\ \E t \in calls[k].answer.tags : t[2] = <<"d","j","i">>
              /\ TranscodeCalls(calls[k].asset) = <<>>

\* C9: an asset whose sidecar holds a marker is classified with the value of
\* the sidecar's first marker and its data stream is not demuxed; an asset
\* without sidecar, or whose sidecar holds no marker, has its data stream
\* demuxed once.
C9_SidecarShortCircuit ==
    \A j \in DOMAIN dji_files :
        LET f == dji_files[j].f
            marker == IF SidecarOf(f) \in DOMAIN sidecars
                      THEN ExpectedMarker(sidecars[SidecarOf(f)])
                      ELSE None
        IN  IF marker # None
            THEN /\ dji_files[j].color_mode = marker
                 /\ CallsFor(f, {"demux"}) = {}
            ELSE Cardinality(CallsFor(f, {"demux"})) = 1

C9_Witness ==
    /\ \E j \in DOMAIN dji_files :
         /\ SidecarOf(dji_files[j].f) \in DOMAIN sidecars
         /\ sidecars[SidecarOf(dji_files[j].f)] = "two_markers"
         /\ dji_files[j].color_mode = <<"h","l","o","g">>
    /\ \E j \in DOMAIN dji_files : CallsFor(dji_files[j].f, {"demux"}) # {}

\* C10: two distinct assets of the processing list never have the same
\* final preview path.
C10_PreviewPathsDistinct ==
    \A j, k \in DOMAIN dji_files :
        j # k => output_file_of(dji_files[j].f) # output_file_of(dji_files[k].f)

====
